---- MODULE Spec2Model ----
(***************************************************************************)
(* Model of xfdashboard's dynamic table layout manager                     *)
(* (libxfdashboard/dynamic-table-layout.c).                                *)
(*                                                                         *)
(* gfloat/double values are modelled as exact extended rationals <<n, d>>: *)
(* d > 0 is the finite value n/d in lowest terms, <<1,0>> is +inf,         *)
(* <<-1,0>> is -inf and <<0,0>> is NaN, so that the IEEE results of the    *)
(* unguarded float divisions of the code (x/0, 0/0) are kept.  Rounding of *)
(* finite values is not modelled.                                          *)
(*                                                                         *)
(* Undefined behaviour of the C code (integer modulo/division by zero,     *)
(* conversion of inf/NaN to gint, reads behind the end of a GArray) is     *)
(* resolved by the build that runs the process, which is any of:           *)
(*   "x86": idiv traps (SIGFPE), cvttsd2si yields INT_MIN                  *)
(*   "arm": sdiv by zero yields 0 (so i % 0 = i), fcvtzs saturates         *)
(*          (NaN -> 0, +inf -> INT_MAX).                                   *)
(***************************************************************************)
EXTENDS Integers, Sequences, FiniteSets, TLC

\* ------------------------------------------------------------------------
\* Bounds of the model
\* ------------------------------------------------------------------------
MaxChildren == 4
MaxSpacing == 1
MaxAvail == 3
MaxSessionChildren == 2

\* G_MININT and G_MAXINT, the results of an undefined conversion to gint.
\* They are scaled down to 21 bits to keep every product with a size or a
\* spacing inside the range of the checker's integers; no count or
\* coordinate of the model comes near them.
IntMin == -(2^20)
IntMax == 2^20 - 1

Builds == {"x86", "arm"}

\* ------------------------------------------------------------------------
\* gfloat / double arithmetic
\* ------------------------------------------------------------------------
Abs(n) == IF n < 0 THEN -n ELSE n

Sign(n) == IF n < 0 THEN -1 ELSE IF n > 0 THEN 1 ELSE 0

RECURSIVE Gcd(_, _)
Gcd(a, b) == IF b = 0 THEN a ELSE Gcd(b, a % b)

\* the value n/d (d >= 0) in its unique representation
Norm(n, d) ==
    IF d = 0 THEN <<Sign(n), 0>>
    ELSE LET g == Gcd(Abs(n), d) IN <<n \div g, d \div g>>

F(i) == <<i, 1>>
FInf == <<1, 0>>
FNaN == <<0, 0>>

IsNaN(a) == a = FNaN
IsFinite(a) == a[2] > 0

FNeg(a) == <<-a[1], a[2]>>

FAdd(a, b) ==
    IF IsNaN(a) \/ IsNaN(b) THEN FNaN
    ELSE IF ~IsFinite(a) /\ ~IsFinite(b) THEN (IF a = b THEN a ELSE FNaN)
    ELSE IF ~IsFinite(a) THEN a
    ELSE IF ~IsFinite(b) THEN b
    ELSE Norm(a[1] * b[2] + b[1] * a[2], a[2] * b[2])

FSub(a, b) == FAdd(a, FNeg(b))

FMul(a, b) == Norm(a[1] * b[1], a[2] * b[2])

\* IEEE division: x/0 is +-inf, 0/0 and inf/inf are NaN (the divisor is never -0)
FDiv(a, b) ==
    LET r == IF b[1] < 0 THEN <<-b[2], -b[1]>> ELSE <<b[2], b[1]>>
        n == a[1] * r[1]
        d == a[2] * r[2]
    IN IF IsNaN(a) \/ IsNaN(b) THEN FNaN
       ELSE IF d < 0 THEN Norm(-n, -d) ELSE Norm(n, d)

\* a < b; every comparison with NaN is false
FLess(a, b) ==
    IF IsNaN(a) \/ IsNaN(b) THEN FALSE
    ELSE IF ~IsFinite(a) \/ ~IsFinite(b)
         THEN (IF ~IsFinite(a) /\ ~IsFinite(b) THEN a[1] < b[1]
               ELSE IF ~IsFinite(a) THEN a[1] < 0
               ELSE b[1] > 0)
    ELSE a[1] * b[2] < b[1] * a[2]

FGreater(a, b) == FLess(b, a)

\* glib's MAX(a, b) == (((a) > (b)) ? (a) : (b))
MAX(a, b) == IF FGreater(a, b) THEN a ELSE b

\* glib's MIN(a, b) == (((a) < (b)) ? (a) : (b))
MIN(a, b) == IF FLess(a, b) THEN a ELSE b

\* floor() and ceil() of math.h
floor(a) == IF IsFinite(a) THEN <<a[1] \div a[2], 1>> ELSE a

ceil(a) == IF IsFinite(a) THEN <<-((-a[1]) \div a[2]), 1>> ELSE a

\* conversion of a double to gint: truncation; undefined for NaN, inf and
\* values out of range, where the build decides
ToInt(a, build) ==
    IF IsFinite(a) /\ a[1] \div a[2] >= IntMin /\ a[1] \div a[2] <= IntMax
    THEN (IF a[1] >= 0 THEN a[1] \div a[2] ELSE -((-a[1]) \div a[2]))
    ELSE IF build = "x86" THEN IntMin
    ELSE IF IsNaN(a) THEN 0
    ELSE IF a[1] > 0 THEN IntMax ELSE IntMin

\* C's i / m and i % m for m # 0 (truncating division)
CDiv(i, m) == Sign(i) * Sign(m) * (Abs(i) \div Abs(m))

CMod(i, m) == i - m * CDiv(i, m)

\* ------------------------------------------------------------------------
\* The container's children and the inputs of the entry points
\* ------------------------------------------------------------------------
\* A child actor: its visibility flag and its natural size
ChildKinds ==
    { [visible |-> TRUE,  width |-> 1, height |-> 1],
      [visible |-> TRUE,  width |-> 0, height |-> 0],
      [visible |-> FALSE, width |-> 2, height |-> 2] }

RECURSIVE SeqsUpTo(_, _)
SeqsUpTo(S, n) ==
    IF n = 0 THEN {<<>>}
    ELSE LET shorter == SeqsUpTo(S, n - 1)
         IN shorter \cup {Append(s, x) : s \in {t \in shorter : Len(t) = n - 1}, x \in S}

ChildLists == SeqsUpTo(ChildKinds, MaxChildren)

Spacings == 0..MaxSpacing

\* a size handed to an entry point: -1 (not set), the whole sizes below
\* MaxAvail and the fractional size MaxAvail + 1/2
Unset == F(-1)
Sizes == {F(k) : k \in 0..(MaxAvail - 1)} \cup {<<2 * MaxAvail + 1, 2>>}
ForSizes == {Unset} \cup Sizes

\* ClutterRequestMode of the container
RequestModes == {"HEIGHT_FOR_WIDTH", "WIDTH_FOR_HEIGHT"}

\* ------------------------------------------------------------------------
\* _xfdashboard_dynamic_table_layout_update_layout_data
\* ------------------------------------------------------------------------
\* Step one: number of visible children
RECURSIVE CountVisible(_, _)
CountVisible(ch, k) ==
    IF k > Len(ch) THEN 0
    ELSE (IF ch[k].visible THEN 1 ELSE 0) + CountVisible(ch, k + 1)

\* Step one: largest natural width of the visible children from index k on,
\* starting with acc
RECURSIVE LargestWidth(_, _, _)
LargestWidth(ch, k, acc) ==
    IF k > Len(ch) THEN acc
    ELSE IF ch[k].visible THEN LargestWidth(ch, k + 1, MAX(acc, F(ch[k].width)))
    ELSE LargestWidth(ch, k + 1, acc)

RECURSIVE LargestHeight(_, _, _)
LargestHeight(ch, k, acc) ==
    IF k > Len(ch) THEN acc
    ELSE IF ch[k].visible THEN LargestHeight(ch, k + 1, MAX(acc, F(ch[k].height)))
    ELSE LargestHeight(ch, k + 1, acc)

\* Step two: the request mode of the container, overridden when a size is
\* not set
EffectiveRequestMode(containerMode, inWidth, inHeight) ==
    IF FLess(inWidth, F(0)) THEN "WIDTH_FOR_HEIGHT"
    ELSE IF FLess(inHeight, F(0)) THEN "HEIGHT_FOR_WIDTH"
    ELSE containerMode

\* ShrinkColumns with >= for > in the loop condition
RECURSIVE ShrinkColumnsWhileNotLess(_, _, _, _)
ShrinkColumnsWhileNotLess(columns, largestWidth, columnSpacing, inWidth) ==
    LET c == columns - 1
        childWidth == FAdd(FMul(F(c), largestWidth), FMul(F(c - 1), F(columnSpacing)))
    IN IF c > 1 /\ ~FLess(childWidth, inWidth)
       THEN ShrinkColumnsWhileNotLess(c, largestWidth, columnSpacing, inWidth)
       ELSE c

\* Step three, do ... while(columns>1 && childWidth>inWidth)
RECURSIVE ShrinkColumns(_, _, _, _)
ShrinkColumns(columns, largestWidth, columnSpacing, inWidth) ==
    LET c == columns - 1
        childWidth == FAdd(FMul(F(c), largestWidth), FMul(F(c - 1), F(columnSpacing)))
    IN IF c > 1 /\ FGreater(childWidth, inWidth)
       THEN ShrinkColumns(c, largestWidth, columnSpacing, inWidth)
       ELSE c

\* Step three, do ... while(rows>1 && childHeight>inHeight)
RECURSIVE ShrinkRows(_, _, _, _)
ShrinkRows(rows, largestHeight, rowSpacing, inHeight) ==
    LET r == rows - 1
        childHeight == FAdd(FMul(F(r), largestHeight), FMul(F(r - 1), F(rowSpacing)))
    IN IF r > 1 /\ FGreater(childHeight, inHeight)
       THEN ShrinkRows(r, largestHeight, rowSpacing, inHeight)
       ELSE r

\* SingleRowShape with rows and columns exchanged
SingleColumnShape(n, largestWidth) ==
    [rows |-> n, columns |-> 1, largestWidth |-> largestWidth,
     events |-> {}, reached |-> TRUE]

\* Step three when neither width nor height is set
SingleRowShape(n, largestWidth) ==
    [rows |-> 1, columns |-> n, largestWidth |-> largestWidth,
     events |-> {}, reached |-> TRUE]

\* CeilOfQuotient with floor(n / m) + 1 for the ceiling
FloorOfQuotientPlusOne(n, m) == FAdd(floor(FDiv(F(n), F(m))), F(1))

\* ceil((double)n / (double)m)
CeilOfQuotient(n, m) == ceil(FDiv(F(n), F(m)))

\* Step three in height-for-width mode: the number of columns
ColumnsForWidth(n, largestWidth, columnSpacing, inWidth, build) ==
    ShrinkColumns(ToInt(FAdd(MIN(ceil(FDiv(inWidth, largestWidth)), F(n)), F(1)), build),
                  largestWidth, columnSpacing, inWidth)

\* Step three in height-for-width mode once the number of columns is known:
\* the rows and the width of a cell
HeightForWidthGrid(n, largestWidth, columns, columnSpacing, inWidth, build) ==
    [rows |-> ToInt(CeilOfQuotient(n, columns), build),
     columns |-> columns,
     largestWidth |-> FDiv(floor(FSub(inWidth, FMul(F(columns - 1), F(columnSpacing)))),
                           F(columns)),
     events |-> (IF largestWidth = F(0) \/ columns = 0 THEN {"float_div_by_zero"} ELSE {})
                \cup (IF ~IsFinite(CeilOfQuotient(n, columns))
                      THEN {"undefined_int_conversion"} ELSE {}),
     reached |-> TRUE]

\* Step three: number of rows and columns, and the width of a cell
\* (largestWidth as step four uses it).  events collects the divisions by
\* zero and undefined conversions that were evaluated.
HeightForWidthShape(n, largestWidth, columnSpacing, inWidth, build) ==
    HeightForWidthGrid(n, largestWidth,
                       ColumnsForWidth(n, largestWidth, columnSpacing, inWidth, build),
                       columnSpacing, inWidth, build)

\* Step three in width-for-height mode: the number of rows
RowsForHeight(n, largestHeight, rowSpacing, inHeight, build) ==
    ShrinkRows(ToInt(FAdd(MIN(ceil(FDiv(inHeight, largestHeight)), F(n)), F(1)), build),
               largestHeight, rowSpacing, inHeight)

\* Step three in width-for-height mode once the number of rows is known
WidthForHeightGrid(n, largestWidth, largestHeight, rows, build) ==
    [rows |-> rows,
     columns |-> ToInt(CeilOfQuotient(n, rows), build),
     largestWidth |-> largestWidth,
     events |-> (IF largestHeight = F(0) \/ rows = 0 THEN {"float_div_by_zero"} ELSE {})
                \cup (IF ~IsFinite(CeilOfQuotient(n, rows))
                      THEN {"undefined_int_conversion"} ELSE {}),
     reached |-> TRUE]

WidthForHeightShape(n, largestWidth, largestHeight, rowSpacing, inHeight, build) ==
    WidthForHeightGrid(n, largestWidth, largestHeight,
                       RowsForHeight(n, largestHeight, rowSpacing, inHeight, build), build)

Shape(n, largestWidth, largestHeight, columnSpacing, rowSpacing, inWidth, inHeight, requestMode, build) ==
    IF FLess(inWidth, F(0)) /\ FLess(inHeight, F(0))
    THEN SingleRowShape(n, largestWidth)
    ELSE IF requestMode = "HEIGHT_FOR_WIDTH"
    THEN HeightForWidthShape(n, largestWidth, columnSpacing, inWidth, build)
    ELSE IF requestMode = "WIDTH_FOR_HEIGHT"
    THEN WidthForHeightShape(n, largestWidth, largestHeight, rowSpacing, inHeight, build)
    ELSE [rows |-> 0, columns |-> 0, largestWidth |-> largestWidth,
          events |-> {"assert_not_reached"}, reached |-> FALSE]

\* ColumnCoords without the final coordinate
RECURSIVE ColumnCoordsWithoutFinal(_, _, _, _, _)
ColumnCoordsWithoutFinal(ch, k, x, largestWidth, columnSpacing) ==
    IF k > Len(ch) THEN <<>>
    ELSE IF ch[k].visible
    THEN <<x>> \o ColumnCoordsWithoutFinal(ch, k + 1, FAdd(x, FAdd(largestWidth, F(columnSpacing))),
                                           largestWidth, columnSpacing)
    ELSE ColumnCoordsWithoutFinal(ch, k + 1, x, largestWidth, columnSpacing)

\* Step four: one x-coordinate per visible child, and the final one
RECURSIVE ColumnCoords(_, _, _, _, _)
ColumnCoords(ch, k, x, largestWidth, columnSpacing) ==
    IF k > Len(ch) THEN <<x>>
    ELSE IF ch[k].visible
    THEN <<x>> \o ColumnCoords(ch, k + 1, FAdd(x, FAdd(largestWidth, F(columnSpacing))),
                               largestWidth, columnSpacing)
    ELSE ColumnCoords(ch, k + 1, x, largestWidth, columnSpacing)

\* Step five: one y-coordinate per started row, and the final one.
\* i counts the visible children seen, y and largestHeight are the loop's
\* variables, coords is the array as appended to so far; trapped is set when
\* i % columns divides by zero on a build where that traps, and the array is
\* left as it was at that point.
RECURSIVE RowCoords(_, _, _, _, _, _, _, _, _, _)
RowCoords(ch, k, i, y, largestHeight, columns, rowSpacing, build, coords, evs) ==
    IF k > Len(ch)
    THEN [coords |-> Append(coords, FAdd(y, largestHeight)), trapped |-> FALSE, events |-> evs]
    ELSE IF ~ch[k].visible
    THEN RowCoords(ch, k + 1, i, y, largestHeight, columns, rowSpacing, build, coords, evs)
    ELSE IF columns = 0 /\ build = "x86"
    THEN [coords |-> coords, trapped |-> TRUE, events |-> evs \cup {"int_mod_by_zero"}]
    ELSE LET first == (IF columns = 0 THEN i ELSE CMod(i, columns)) = 0
             y2 == IF first THEN FAdd(y, FAdd(largestHeight, F(rowSpacing))) ELSE y
         IN RowCoords(ch, k + 1, i + 1, y2,
                      MAX(IF first THEN F(0) ELSE largestHeight, F(ch[k].height)),
                      columns, rowSpacing, build,
                      IF first THEN Append(coords, y2) ELSE coords,
                      evs \cup (IF columns = 0 THEN {"int_mod_by_zero"} ELSE {}))

\* LayoutData without the release of the old column coordinates
LayoutDataKeepingColumnCoords(old, n, shape, newColumnCoords, rc) ==
    [numberChildren |-> n, rows |-> shape.rows, columns |-> shape.columns,
     columnCoords |-> old.columnCoords \o newColumnCoords,
     rowCoords |-> rc.coords,
     notified |-> IF rc.trapped THEN {}
                  ELSE (IF n # old.numberChildren THEN {"number-children"} ELSE {})
                       \cup (IF shape.rows # old.rows THEN {"rows"} ELSE {})
                       \cup (IF shape.columns # old.columns THEN {"columns"} ELSE {}),
     events |-> shape.events \cup rc.events,
     err |-> IF rc.trapped THEN "SIGFPE" ELSE "none"]

\* The end of the update: the new values of the private structure, the
\* properties notified when the notification queue thaws, the undefined or
\* zero-divisor operations evaluated, and how the call ended.
LayoutData(old, n, shape, newColumnCoords, rc) ==
    IF ~shape.reached
    THEN [numberChildren |-> n, rows |-> old.rows, columns |-> old.columns,
          columnCoords |-> old.columnCoords, rowCoords |-> old.rowCoords,
          notified |-> {}, events |-> shape.events, err |-> "SIGABRT"]
    ELSE [numberChildren |-> n, rows |-> shape.rows, columns |-> shape.columns,
          columnCoords |-> newColumnCoords,
          rowCoords |-> rc.coords,
          notified |-> IF rc.trapped THEN {}
                       ELSE (IF n # old.numberChildren THEN {"number-children"} ELSE {})
                            \cup (IF shape.rows # old.rows THEN {"rows"} ELSE {})
                            \cup (IF shape.columns # old.columns THEN {"columns"} ELSE {}),
          events |-> shape.events \cup rc.events,
          err |-> IF rc.trapped THEN "SIGFPE" ELSE "none"]

\* Steps four and five for the shape of step three
UpdateCoords(ch, columnSpacing, rowSpacing, old, n, shape, build) ==
    LayoutData(old, n, shape,
               ColumnCoords(ch, 1, F(0), shape.largestWidth, columnSpacing),
               RowCoords(ch, 1, 0, FNeg(F(rowSpacing)), F(0), shape.columns, rowSpacing,
                         build, <<>>, {}))

\* The whole update
UpdateLayoutData(ch, columnSpacing, rowSpacing, old, inWidth, inHeight, containerMode, build) ==
    UpdateCoords(ch, columnSpacing, rowSpacing, old, CountVisible(ch, 1),
                 Shape(CountVisible(ch, 1), LargestWidth(ch, 1, F(0)), LargestHeight(ch, 1, F(0)),
                       columnSpacing, rowSpacing, inWidth, inHeight,
                       EffectiveRequestMode(containerMode, inWidth, inHeight), build),
                 build)

\* g_array_index(array, gfloat, index): a read behind the end of the array
\* yields whatever is there
InBounds(array, index) == index >= 0 /\ index < Len(array)

ArrayIndex(array, index, garbage) ==
    IF InBounds(array, index) THEN array[index + 1] ELSE garbage

GarbageValues == {F(0), FNaN}

\* ------------------------------------------------------------------------
\* _xfdashboard_dynamic_table_layout_allocate: the loop over the children.
\* Yields the calls of clutter_actor_allocate in order: the child's position
\* in the container and its box.
\* ------------------------------------------------------------------------
\* ChildColumn with / for %
ChildColumnByDivision(i, columns) == IF columns = 0 THEN i ELSE CDiv(i, columns)

ChildColumn(i, columns) == IF columns = 0 THEN i ELSE CMod(i, columns)

ChildRow(i, columns) == IF columns = 0 THEN 0 ELSE CDiv(i, columns)

ChildAllocation(i, columns, columnCoords, rowCoords, columnSpacing, rowSpacing, garbage) ==
    LET column == ChildColumn(i, columns)
        row == ChildRow(i, columns)
    IN [x1 |-> ArrayIndex(columnCoords, column, garbage),
        x2 |-> FSub(ArrayIndex(columnCoords, column + 1, garbage), F(columnSpacing)),
        y1 |-> ArrayIndex(rowCoords, row, garbage),
        y2 |-> FSub(ArrayIndex(rowCoords, row + 1, garbage), F(rowSpacing))]

RECURSIVE AllocateChildren(_, _, _, _, _, _, _, _, _, _)
AllocateChildren(ch, k, i, columns, columnCoords, rowCoords, columnSpacing, rowSpacing, build, garbage) ==
    IF k > Len(ch) THEN [calls |-> <<>>, trapped |-> FALSE]
    ELSE IF ~ch[k].visible
    THEN AllocateChildren(ch, k + 1, i, columns, columnCoords, rowCoords,
                          columnSpacing, rowSpacing, build, garbage)
    ELSE IF columns = 0 /\ build = "x86"
    THEN [calls |-> <<>>, trapped |-> TRUE]
    ELSE LET rest == AllocateChildren(ch, k + 1, i + 1, columns, columnCoords, rowCoords,
                                      columnSpacing, rowSpacing, build, garbage)
             box == ChildAllocation(i, columns, columnCoords, rowCoords,
                                    columnSpacing, rowSpacing, garbage)
         IN [calls |-> <<[child |-> k, box |-> box]>> \o rest.calls,
             trapped |-> rest.trapped]

\* the reads of the two arrays the allocation loop makes behind their ends
AllocateReadsOutOfBounds(n, columns, columnCoords, rowCoords) ==
    \E i \in 0..(n - 1) :
        \/ ~InBounds(columnCoords, ChildColumn(i, columns))
        \/ ~InBounds(columnCoords, ChildColumn(i, columns) + 1)
        \/ ~InBounds(rowCoords, ChildRow(i, columns))
        \/ ~InBounds(rowCoords, ChildRow(i, columns) + 1)

\* ------------------------------------------------------------------------
\* State
\* ------------------------------------------------------------------------
VARIABLES
    children,        \* the container's child actors, in iteration order
    requestMode,     \* the container's request mode
    rowSpacing,      \* priv->rowSpacing
    columnSpacing,   \* priv->columnSpacing
    rows,            \* priv->rows
    columns,         \* priv->columns
    numberChildren,  \* priv->numberChildren
    columnCoords,    \* priv->columnCoords (<<>> is NULL or an empty array)
    rowCoords,       \* priv->rowCoords
    lastCall,        \* the last call of the public interface and what it returned
    allocated,       \* the clutter_actor_allocate calls the last call made
    notified,        \* the property notifications the last call emitted
    layoutChanged,   \* number of layout-changed emissions of the last call
    events,          \* divisions by zero and undefined operations of the last call
    err,             \* "none", or the signal that ended the process
    build            \* the build that runs the process: it decides the undefined operations

layoutVars == <<children, requestMode, rowSpacing, columnSpacing, rows, columns,
                numberChildren, columnCoords, rowCoords, lastCall, allocated, notified,
                layoutChanged, events, err, build>>

\* The application instance (src/application.c)
VARIABLES
    isDaemon,        \* priv->isDaemon
    isSuspended,     \* priv->isSuspended
    inited,          \* priv->inited
    stages,          \* number of stages the stage manager lists
    stageShown,      \* the primary stage was shown at start-up
    mainQuit,        \* clutter_main_quit was called
    appCall,         \* the last call on the application and its return status
    appLog,          \* what the last call did, in order: stages destroyed, signals emitted
    appNotified      \* the property notifications of the last call

appVars == <<isDaemon, isSuspended, inited, stages, stageShown, mainQuit,
             appCall, appLog, appNotified>>

vars == <<layoutVars, appVars>>

AppCall(op, daemonize, quit, toggle, status) ==
    [op |-> op, daemonize |-> daemonize, quit |-> quit, toggle |-> toggle,
     status |-> status]

\* xfdashboard_application_init
ApplicationInit ==
    /\ isDaemon = FALSE
    /\ isSuspended = FALSE
    /\ inited = FALSE
    /\ stages = 0
    /\ stageShown = FALSE
    /\ mainQuit = FALSE
    /\ appCall = AppCall("init", FALSE, FALSE, FALSE, "NONE")
    /\ appLog = <<>>
    /\ appNotified = {}

priv == [numberChildren |-> numberChildren, rows |-> rows, columns |-> columns,
         columnCoords |-> columnCoords, rowCoords |-> rowCoords]

Call(op, inWidth, inHeight, inSpacing, outMin, outNatural) ==
    [op |-> op, inWidth |-> inWidth, inHeight |-> inHeight,
     inSpacing |-> inSpacing, outMin |-> outMin, outNatural |-> outNatural]

\* xfdashboard_dynamic_table_layout_init: the private structure of a new
\* layout manager, attached to a container of any children
Init ==
    /\ children \in ChildLists
    /\ requestMode \in RequestModes
    /\ rowSpacing = 0
    /\ columnSpacing = 0
    /\ rows = 0
    /\ columns = 0
    /\ numberChildren = 0
    /\ columnCoords = <<>>
    /\ rowCoords = <<>>
    /\ lastCall = Call("init", Unset, Unset, 0, F(0), F(0))
    /\ allocated = <<>>
    /\ notified = {}
    /\ layoutChanged = 0
    /\ events = {}
    /\ err = "none"
    /\ build \in Builds
    /\ ApplicationInit

\* the part of an entry point that is the update of the layout data
Updated(u) ==
    /\ numberChildren' = u.numberChildren
    /\ rows' = u.rows
    /\ columns' = u.columns
    /\ columnCoords' = u.columnCoords
    /\ rowCoords' = u.rowCoords
    /\ notified' = u.notified
    /\ err' = u.err
    /\ layoutChanged' = 0
    /\ UNCHANGED <<children, requestMode, rowSpacing, columnSpacing, build>>

\* _xfdashboard_dynamic_table_layout_get_preferred_width
GetPreferredWidth ==
    /\ err = "none"
    /\ \E inForHeight \in ForSizes :
       \E u \in {UpdateLayoutData(children, columnSpacing, rowSpacing, priv,
                                  Unset, inForHeight, requestMode, build)} :
       \E read \in {u.err = "none" /\ u.columns > 0} :
       \E oob \in {read /\ ~InBounds(u.columnCoords, u.columns)} :
       \E garbage \in (IF oob THEN GarbageValues ELSE {F(0)}) :
           /\ Updated(u)
           /\ events' = u.events \cup (IF oob THEN {"read_out_of_bounds"} ELSE {})
           /\ allocated' = <<>>
           /\ lastCall' = Call("get_preferred_width", Unset, inForHeight, 0,
                   IF read THEN FMul(F(u.columns - 1), F(columnSpacing)) ELSE F(0),
                   IF read THEN ArrayIndex(u.columnCoords, u.columns, garbage) ELSE F(0))

\* _xfdashboard_dynamic_table_layout_get_preferred_height
GetPreferredHeight ==
    /\ err = "none"
    /\ \E inForWidth \in ForSizes :
       \E u \in {UpdateLayoutData(children, columnSpacing, rowSpacing, priv,
                                  inForWidth, Unset, requestMode, build)} :
       \E read \in {u.err = "none" /\ u.rows > 0} :
       \E oob \in {read /\ ~InBounds(u.rowCoords, u.rows)} :
       \E garbage \in (IF oob THEN GarbageValues ELSE {F(0)}) :
           /\ Updated(u)
           /\ events' = u.events \cup (IF oob THEN {"read_out_of_bounds"} ELSE {})
           /\ allocated' = <<>>
           /\ lastCall' = Call("get_preferred_height", inForWidth, Unset, 0,
                   IF read THEN FMul(F(u.rows - 1), F(rowSpacing)) ELSE F(0),
                   IF read THEN ArrayIndex(u.rowCoords, u.rows, garbage) ELSE F(0))

\* _xfdashboard_dynamic_table_layout_allocate
Allocate ==
    /\ err = "none"
    /\ \E width \in Sizes, height \in Sizes :
       \E u \in {UpdateLayoutData(children, columnSpacing, rowSpacing, priv,
                                  width, height, requestMode, build)} :
       \E done \in {u.err = "none"} :
       \E oob \in {done /\ AllocateReadsOutOfBounds(u.numberChildren, u.columns,
                                                    u.columnCoords, u.rowCoords)} :
       \E garbage \in (IF oob THEN GarbageValues ELSE {F(0)}) :
       \E a \in {AllocateChildren(children, 1, 0, u.columns, u.columnCoords, u.rowCoords,
                                  columnSpacing, rowSpacing, build, garbage)} :
           /\ Updated(u)
           /\ events' = u.events
                   \cup (IF oob THEN {"read_out_of_bounds"} ELSE {})
                   \cup (IF done /\ u.columns = 0 /\ u.numberChildren > 0
                         THEN {"int_mod_by_zero"} ELSE {})
           /\ allocated' = IF done THEN a.calls ELSE <<>>
           /\ lastCall' = Call("allocate", width, height, 0, F(0), F(0))

\* SetSpacing as a call of the two other setters: one layout-changed for
\* each spacing that changes
SetSpacingByBothSetters ==
    /\ err = "none"
    /\ \E inSpacing \in Spacings \cup {-1} :
        /\ IF inSpacing >= 0 /\ (rowSpacing # inSpacing \/ columnSpacing # inSpacing)
           THEN /\ rowSpacing' = inSpacing
                /\ columnSpacing' = inSpacing
                /\ notified' = {"row-spacing", "column-spacing"}
                /\ layoutChanged' = (IF rowSpacing # inSpacing THEN 1 ELSE 0)
                                    + (IF columnSpacing # inSpacing THEN 1 ELSE 0)
           ELSE /\ UNCHANGED <<rowSpacing, columnSpacing>>
                /\ notified' = {}
                /\ layoutChanged' = 0
        /\ lastCall' = Call("set_spacing", Unset, Unset, inSpacing, F(0), F(0))
        /\ allocated' = <<>>
        /\ events' = {}
        /\ UNCHANGED <<children, requestMode, rows, columns, numberChildren,
                       columnCoords, rowCoords, err, build>>

\* xfdashboard_dynamic_table_layout_set_spacing
SetSpacing ==
    /\ err = "none"
    /\ \E inSpacing \in Spacings \cup {-1} :
        /\ IF inSpacing >= 0 /\ (rowSpacing # inSpacing \/ columnSpacing # inSpacing)
           THEN /\ rowSpacing' = inSpacing
                /\ columnSpacing' = inSpacing
                /\ notified' = {"row-spacing", "column-spacing"}
                /\ layoutChanged' = 1
           ELSE /\ UNCHANGED <<rowSpacing, columnSpacing>>
                /\ notified' = {}
                /\ layoutChanged' = 0
        /\ lastCall' = Call("set_spacing", Unset, Unset, inSpacing, F(0), F(0))
        /\ allocated' = <<>>
        /\ events' = {}
        /\ UNCHANGED <<children, requestMode, rows, columns, numberChildren,
                       columnCoords, rowCoords, err, build>>

\* SetRowSpacing without the check of inSpacing >= 0
SetRowSpacingUnchecked ==
    /\ err = "none"
    /\ \E inSpacing \in Spacings \cup {-1} :
        /\ IF rowSpacing # inSpacing
           THEN /\ rowSpacing' = inSpacing
                /\ notified' = {"row-spacing"}
                /\ layoutChanged' = 1
           ELSE /\ UNCHANGED rowSpacing
                /\ notified' = {}
                /\ layoutChanged' = 0
        /\ lastCall' = Call("set_row_spacing", Unset, Unset, inSpacing, F(0), F(0))
        /\ allocated' = <<>>
        /\ events' = {}
        /\ UNCHANGED <<children, requestMode, columnSpacing, rows, columns,
                       numberChildren, columnCoords, rowCoords, err, build>>

\* xfdashboard_dynamic_table_layout_set_row_spacing
SetRowSpacing ==
    /\ err = "none"
    /\ \E inSpacing \in Spacings \cup {-1} :
        /\ IF inSpacing >= 0 /\ rowSpacing # inSpacing
           THEN /\ rowSpacing' = inSpacing
                /\ notified' = {"row-spacing"}
                /\ layoutChanged' = 1
           ELSE /\ UNCHANGED rowSpacing
                /\ notified' = {}
                /\ layoutChanged' = 0
        /\ lastCall' = Call("set_row_spacing", Unset, Unset, inSpacing, F(0), F(0))
        /\ allocated' = <<>>
        /\ events' = {}
        /\ UNCHANGED <<children, requestMode, columnSpacing, rows, columns,
                       numberChildren, columnCoords, rowCoords, err, build>>

\* xfdashboard_dynamic_table_layout_set_column_spacing
SetColumnSpacing ==
    /\ err = "none"
    /\ \E inSpacing \in Spacings \cup {-1} :
        /\ IF inSpacing >= 0 /\ columnSpacing # inSpacing
           THEN /\ columnSpacing' = inSpacing
                /\ notified' = {"column-spacing"}
                /\ layoutChanged' = 1
           ELSE /\ UNCHANGED columnSpacing
                /\ notified' = {}
                /\ layoutChanged' = 0
        /\ lastCall' = Call("set_column_spacing", Unset, Unset, inSpacing, F(0), F(0))
        /\ allocated' = <<>>
        /\ events' = {}
        /\ UNCHANGED <<children, requestMode, rowSpacing, rows, columns,
                       numberChildren, columnCoords, rowCoords, err, build>>

Next ==
    /\ \/ GetPreferredWidth
       \/ GetPreferredHeight
       \/ Allocate
       \/ SetSpacing
       \/ SetRowSpacing
       \/ SetColumnSpacing
    /\ UNCHANGED appVars

\* any sequence of calls on a layout manager created with default spacing
Spec == Init /\ [][Next]_vars

\* One call of an entry point on a layout manager that was constructed with
\* any row-spacing and column-spacing property and attached to any container
CallInit ==
    /\ children \in ChildLists
    /\ requestMode \in RequestModes
    /\ rowSpacing \in Spacings
    /\ columnSpacing \in Spacings
    /\ rows = 0
    /\ columns = 0
    /\ numberChildren = 0
    /\ columnCoords = <<>>
    /\ rowCoords = <<>>
    /\ lastCall = Call("init", Unset, Unset, 0, F(0), F(0))
    /\ allocated = <<>>
    /\ notified = {}
    /\ layoutChanged = 0
    /\ events = {}
    /\ err = "none"
    /\ build \in Builds
    /\ ApplicationInit

CallNext ==
    /\ lastCall.op = "init"
    /\ \/ GetPreferredWidth
       \/ GetPreferredHeight
       \/ Allocate
    /\ UNCHANGED appVars

CallSpec == CallInit /\ [][CallNext]_vars

\* Any sequence of calls on a layout manager created with default spacing
\* and attached to a container of at most MaxSessionChildren children
SessionInit == Init /\ Len(children) <= MaxSessionChildren

SessionSpec == SessionInit /\ [][Next]_vars

\* ------------------------------------------------------------------------
\* The application: quit, suspend and resume (src/application.c)
\* ------------------------------------------------------------------------
\* QuitRequest that suspends on every request that is not forced
QuitRequestSuspendUnlessForced(inForceQuit) ==
    IF inForceQuit
    THEN [isSuspended |-> isSuspended, stages |-> 0,
          log |-> <<"destroy-stages", "quit">>, notified |-> {}, mainQuit |-> inited]
    ELSE IF ~isSuspended
    THEN [isSuspended |-> TRUE, stages |-> stages,
          log |-> <<"suspend">>, notified |-> {"is-suspended"}, mainQuit |-> FALSE]
    ELSE [isSuspended |-> isSuspended, stages |-> stages,
          log |-> <<>>, notified |-> {}, mainQuit |-> FALSE]

\* QuitRequest that emits "suspend" for every quit request without force in
\* daemon mode, suspended or not
QuitRequestSuspendAlways(inForceQuit) ==
    IF inForceQuit \/ ~isDaemon
    THEN [isSuspended |-> isSuspended, stages |-> 0,
          log |-> <<"destroy-stages", "quit">>, notified |-> {}, mainQuit |-> inited]
    ELSE [isSuspended |-> TRUE, stages |-> stages,
          log |-> <<"suspend">>, notified |-> {"is-suspended"}, mainQuit |-> FALSE]

\* _xfdashboard_application_quit: what a quit request does to the instance
QuitRequest(inForceQuit) ==
    IF inForceQuit \/ ~isDaemon
    THEN [isSuspended |-> isSuspended, stages |-> 0,
          log |-> <<"destroy-stages", "quit">>, notified |-> {}, mainQuit |-> inited]
    ELSE IF ~isSuspended
    THEN [isSuspended |-> TRUE, stages |-> stages,
          log |-> <<"suspend">>, notified |-> {"is-suspended"}, mainQuit |-> FALSE]
    ELSE [isSuspended |-> isSuspended, stages |-> stages,
          log |-> <<>>, notified |-> {}, mainQuit |-> FALSE]

\* _xfdashboard_application_activate
Activation ==
    [isSuspended |-> FALSE, stages |-> stages, log |-> <<"resume">>,
     notified |-> IF isSuspended THEN {"is-suspended"} ELSE {}, mainQuit |-> FALSE]

\* the effect of a quit request or an activation on the instance
Applied(q) ==
    /\ isSuspended' = q.isSuspended
    /\ stages' = q.stages
    /\ appLog' = q.log
    /\ appNotified' = q.notified
    /\ mainQuit' = q.mainQuit
    /\ UNCHANGED <<isDaemon, inited, stageShown>>

\* CommandLineToggle that handles --toggle on every instance, initialized or not
CommandLineToggleAlways(optionToggle) == optionToggle

\* the condition under which _xfdashboard_application_command_line handles
\* --toggle instead of starting up
CommandLineToggle(optionToggle) == inited /\ optionToggle

\* _xfdashboard_application_command_line; parsed is the result of
\* g_option_context_parse and initialized that of the full initialization
CommandLine ==
    /\ ~mainQuit
    /\ \E optionDaemonize \in BOOLEAN, optionQuit \in BOOLEAN, optionToggle \in BOOLEAN,
          parsed \in BOOLEAN, initialized \in BOOLEAN :
        IF ~parsed
        THEN /\ appCall' = AppCall("command_line", optionDaemonize, optionQuit, optionToggle,
                                   "FAILED")
             /\ appLog' = <<>>
             /\ appNotified' = {}
             /\ UNCHANGED <<isDaemon, isSuspended, inited, stages, stageShown, mainQuit>>
        ELSE IF optionQuit
        THEN /\ Applied(QuitRequest(TRUE))
             /\ appCall' = AppCall("command_line", optionDaemonize, optionQuit, optionToggle,
                                   "QUIT")
        ELSE IF CommandLineToggle(optionToggle)
        THEN /\ Applied(IF isDaemon /\ isSuspended THEN Activation ELSE QuitRequest(FALSE))
             /\ appCall' = AppCall("command_line", optionDaemonize, optionQuit, optionToggle,
                                   "NONE")
        ELSE IF ~inited
        THEN /\ isDaemon' = optionDaemonize
             /\ isSuspended' = IF optionDaemonize THEN TRUE ELSE isSuspended
             /\ appNotified' = {"is-daemonized"}
                                \cup (IF optionDaemonize THEN {"is-suspended"} ELSE {})
             /\ appLog' = <<>>
             /\ inited' = initialized
             /\ stages' = IF initialized THEN stages + 1 ELSE stages
             /\ stageShown' = (initialized /\ ~optionDaemonize)
             /\ appCall' = AppCall("command_line", optionDaemonize, optionQuit, optionToggle,
                                   IF initialized THEN "NONE" ELSE "FAILED")
             /\ UNCHANGED mainQuit
        ELSE /\ Applied(Activation)
             /\ appCall' = AppCall("command_line", optionDaemonize, optionQuit, optionToggle,
                                   "NONE")

\* the "activate" signal of GApplication on the primary instance
Activate ==
    /\ ~mainQuit
    /\ Applied(Activation)
    /\ appCall' = AppCall("activate", FALSE, FALSE, FALSE, "NONE")

\* xfdashboard_application_quit
Quit ==
    /\ ~mainQuit
    /\ Applied(QuitRequest(FALSE))
    /\ appCall' = AppCall("quit", FALSE, FALSE, FALSE, "NONE")

\* xfdashboard_application_quit_forced
QuitForced ==
    /\ ~mainQuit
    /\ Applied(QuitRequest(TRUE))
    /\ appCall' = AppCall("quit_forced", FALSE, FALSE, FALSE, "NONE")

\* _xfdashboard_application_on_delete_stage
DeleteStage ==
    /\ ~mainQuit
    /\ stages > 0
    /\ Applied(QuitRequest(FALSE))
    /\ appCall' = AppCall("delete_stage", FALSE, FALSE, FALSE, "NONE")

AppNext ==
    /\ \/ CommandLine
       \/ Activate
       \/ Quit
       \/ QuitForced
       \/ DeleteStage
    /\ UNCHANGED layoutVars

\* any sequence of calls on the application instance; the layout manager of
\* a container without children is not called
AppInit == Init /\ children = <<>> /\ requestMode = "HEIGHT_FOR_WIDTH" /\ build = "x86"

AppSpec == AppInit /\ [][AppNext]_vars

\* ------------------------------------------------------------------------
\* Vocabulary of the properties
\* ------------------------------------------------------------------------
\* the last call was an entry point of the layout manager, so the layout
\* data is that of its update
Recomputed == lastCall.op \in {"get_preferred_width", "get_preferred_height", "allocate"}

WidthSet == lastCall.inWidth # Unset
HeightSet == lastCall.inHeight # Unset

BothUnconstrained == Recomputed /\ ~WidthSet /\ ~HeightSet

HeightForWidth ==
    Recomputed /\ WidthSet /\ (~HeightSet \/ requestMode = "HEIGHT_FOR_WIDTH")

WidthForHeight ==
    Recomputed /\ HeightSet /\ (~WidthSet \/ requestMode = "WIDTH_FOR_HEIGHT")

\* the visible children, their number and their largest natural sizes
VisibleChildren == SelectSeq(children, LAMBDA c : c.visible)
N == Len(VisibleChildren)
NaturalWidths == {VisibleChildren[j].width : j \in 1..N}
NaturalHeights == {VisibleChildren[j].height : j \in 1..N}
Largest(S) == IF S = {} THEN 0 ELSE CHOOSE m \in S : \A x \in S : x <= m

\* a <= b for finite sizes a and b given as <<numerator, denominator>>
Leq(a, b) == a[1] * b[2] <= b[1] * a[2]

\* the largest k in 1..n such that k cells of the given size and k - 1
\* spacings fit into avail, or 1 when none does
LargestFit(n, size, spacing, avail) ==
    LET fits == {k \in 1..n : Leq(F(k * size + (k - 1) * spacing), avail)}
    IN IF fits = {} THEN 1 ELSE CHOOSE k \in fits : \A j \in fits : j <= k

CeilDiv(a, b) == (a + b - 1) \div b

\* ------------------------------------------------------------------------
\* Properties
\* ------------------------------------------------------------------------

\* C1: every entry point runs the update to completion: the process is not
\* ended by a signal, no division or modulo by zero is evaluated and the
\* "not reached" assertion is not hit.
C1_EntryPointsNeverFail ==
    Recomputed =>
        /\ err = "none"
        /\ events \cap {"float_div_by_zero", "int_mod_by_zero", "assert_not_reached"} = {}

\* C2: after an update with at least one visible child the grid has a cell
\* for every child: rows * columns >= n.
C2_EnoughCells ==
    Recomputed /\ N > 0 => rows * columns >= N

\* C3 as claimed, on the calls that evaluate no undefined operation: after an
\* update with at least one visible child, in every sizing mode, no row is
\* completely empty: (rows - 1) * columns < n.
C3_NoEmptyRowInAnyMode ==
    Recomputed /\ N > 0 /\ events = {} => (rows - 1) * columns < N

\* C3 as amended: after an update with at least one visible child where
\* neither size is set or the columns are derived from the width
\* (height-for-width), no row is completely empty: (rows - 1) * columns < n.
C3_NoEmptyRowHeightForWidth ==
    (BothUnconstrained \/ HeightForWidth) /\ N > 0 => (rows - 1) * columns < N

C3_Witness ==
    HeightForWidth /\ N = 3 /\ columns = 2 /\ rows = 2 /\ err = "none"

\* C4: in height-for-width mode with n >= 1 visible children of largest
\* natural width L > 0, columns is the largest c in 1..n with
\* c*L + (c-1)*columnSpacing <= W, or 1 when there is none, and
\* rows = ceil(n / columns).
C4_LargestFittingColumns ==
    HeightForWidth /\ N >= 1 /\ Largest(NaturalWidths) > 0 =>
        /\ columns = LargestFit(N, Largest(NaturalWidths), columnSpacing, lastCall.inWidth)
        /\ rows = CeilDiv(N, columns)

\* C5: in width-for-height mode with n >= 1 visible children of largest
\* natural height M > 0, rows is the largest r in 1..n with
\* r*M + (r-1)*rowSpacing <= H, or 1 when there is none, and
\* columns = ceil(n / rows).
C5_LargestFittingRows ==
    WidthForHeight /\ N >= 1 /\ Largest(NaturalHeights) > 0 =>
        /\ rows = LargestFit(N, Largest(NaturalHeights), rowSpacing, lastCall.inHeight)
        /\ columns = CeilDiv(N, rows)

\* C6: when neither width nor height is set and there are n >= 1 visible
\* children, the update yields a single row: rows = 1 and columns = n.
C6_SingleRow ==
    BothUnconstrained /\ N >= 1 => rows = 1 /\ columns = N

C6_Witness ==
    BothUnconstrained /\ N >= 2 /\ Len(children) > N /\ rows = 1 /\ columns = N
        /\ (rowSpacing > 0 \/ columnSpacing > 0)

\* C7: without a visible child the update yields rows = 0, columns = 0 and
\* both coordinate arrays equal to the single entry 0.
C7_EmptyLayout ==
    Recomputed /\ N = 0 =>
        /\ rows = 0
        /\ columns = 0
        /\ columnCoords = <<F(0)>>
        /\ rowCoords = <<F(0)>>

C10_OnlyVisibleChildren ==
    lastCall.op = "allocate" =>
        /\ \A k \in 1..Len(children) :
               Cardinality({j \in 1..Len(allocated) : allocated[j].child = k})
                   = (IF children[k].visible THEN 1 ELSE 0)
        /\ \E u \in {UpdateLayoutData(VisibleChildren, columnSpacing, rowSpacing, priv,
                                      lastCall.inWidth, lastCall.inHeight, requestMode, build)} :
           \E a \in {AllocateChildren(VisibleChildren, 1, 0, u.columns, u.columnCoords,
                                      u.rowCoords, columnSpacing, rowSpacing, build, F(0))} :
               /\ numberChildren = u.numberChildren
               /\ rows = u.rows
               /\ columns = u.columns
               /\ columnCoords = u.columnCoords
               /\ rowCoords = u.rowCoords
               /\ err = "none" =>
                      [j \in 1..Len(allocated) |-> allocated[j].box]
                          = [j \in 1..Len(a.calls) |-> a.calls[j].box]

\* the visible children of row r (from 0) of the grid: the consecutive
\* groups of `columns` visible children
RowMembers(r) == {j \in 1..N : columns > 0 /\ (j - 1) \div columns = r}

Tallest(r) == Largest({VisibleChildren[j].height : j \in RowMembers(r)})

\* the sum of the tallest natural heights of the rows below r
RECURSIVE SumOfRowHeights(_)
SumOfRowHeights(r) == IF r <= 0 THEN 0 ELSE Tallest(r - 1) + SumOfRowHeights(r - 1)

Smaller(a, b) == IF a < b THEN a ELSE b

\* C11: get_preferred_width returns minWidth = (columns - 1) * columnSpacing
\* (0 when columns <= 1) and naturalWidth = columns * cellWidth +
\* (columns - 1) * columnSpacing (0 when columns = 0), the content width of
\* the grid without trailing spacing; the width is not set, so a cell is as
\* wide as the widest visible child.
C11_PreferredWidth ==
    lastCall.op = "get_preferred_width" =>
        /\ lastCall.inWidth = Unset
        /\ lastCall.outMin = IF columns <= 1 THEN F(0) ELSE F((columns - 1) * columnSpacing)
        /\ lastCall.outNatural =
               IF columns = 0 THEN F(0)
               ELSE F(columns * Largest(NaturalWidths) + (columns - 1) * columnSpacing)

\* C12: get_preferred_height returns minHeight = (rows - 1) * rowSpacing
\* (0 when rows <= 1) and naturalHeight = the sum over the rows of the tallest
\* natural height in the row plus (rows - 1) * rowSpacing (0 when rows = 0).
C12_PreferredHeight ==
    lastCall.op = "get_preferred_height" =>
        /\ lastCall.inHeight = Unset
        /\ lastCall.outMin = IF rows <= 1 THEN F(0) ELSE F((rows - 1) * rowSpacing)
        /\ lastCall.outNatural =
               IF rows = 0 THEN F(0)
               ELSE F(SumOfRowHeights(Smaller(rows, N)) + (rows - 1) * rowSpacing)

FGeq(a, b) == ~IsNaN(a) /\ ~IsNaN(b) /\ ~FLess(a, b)

NonDecreasing(s) == \A j \in 1..(Len(s) - 1) : FGeq(s[j + 1], s[j])

\* C14: after every update (the spacings are never negative) the column
\* coordinates and the row coordinates start at 0 and are non-decreasing.
C14_CoordsFromZeroNonDecreasing ==
    Recomputed =>
        /\ Len(columnCoords) > 0 /\ columnCoords[1] = F(0) /\ NonDecreasing(columnCoords)
        /\ Len(rowCoords) > 0 /\ rowCoords[1] = F(0) /\ NonDecreasing(rowCoords)

\* a step that is a call of an entry point, which runs the update
RecomputeStep == lastCall'.op \in {"get_preferred_width", "get_preferred_height", "allocate"}

\* the properties whose stored value the step changes
ChangedByStep ==
    (IF numberChildren' # numberChildren THEN {"number-children"} ELSE {})
    \cup (IF rows' # rows THEN {"rows"} ELSE {})
    \cup (IF columns' # columns THEN {"columns"} ELSE {})

\* C15: over any sequence of calls, an update emits the notification of
\* number-children, of rows and of columns exactly when the value it computes
\* differs from the value the previous call stored (initially 0).
C15_NotifiesExactlyTheChanges ==
    [][RecomputeStep => notified' = ChangedByStep]_vars

\* C16: an update that follows an update with the same available width and
\* height, with the same children, spacing and request mode, leaves rows,
\* columns, numberChildren and both coordinate arrays as the first left them.
C16_Idempotent ==
    [][Recomputed /\ RecomputeStep
       /\ lastCall'.inWidth = lastCall.inWidth /\ lastCall'.inHeight = lastCall.inHeight
       => priv' = priv]_vars

\* a call that found rows, columns and numberChildren as a previous call had
\* stored them
C16_Witness ==
    Recomputed /\ err = "none" /\ N = 2 /\ rows = 2 /\ columns = 1
        /\ notified = {} /\ Len(columnCoords) = 3 /\ Len(rowCoords) = 3

\* a step that is a call of one of the three spacing setters
SetterStep == lastCall'.op \in {"set_spacing", "set_row_spacing", "set_column_spacing"}

\* C17: a spacing setter called with a negative value changes neither the
\* spacings nor rows, columns and the coordinate arrays and emits neither a
\* property notification nor layout-changed; rowSpacing >= 0 and
\* columnSpacing >= 0 in every reachable state.
C17_NegativeSpacingRejected ==
    /\ [](rowSpacing >= 0 /\ columnSpacing >= 0)
    /\ [][SetterStep /\ lastCall'.inSpacing < 0 =>
              /\ UNCHANGED <<rowSpacing, columnSpacing, rows, columns, numberChildren,
                             columnCoords, rowCoords>>
              /\ notified' = {}
              /\ layoutChanged' = 0]_vars

C17_Witness ==
    /\ lastCall.op = "set_row_spacing" /\ lastCall.inSpacing < 0
    /\ rowSpacing > 0 /\ rows > 0 /\ notified = {} /\ layoutChanged = 0

\* C18: set_spacing(v) with v >= 0 different from at least one of the two
\* spacings sets both to v and emits layout-changed exactly once; when both
\* already equal v it changes nothing and emits no notification.
C18_CombinedSetterNotifiesOnce ==
    [][lastCall'.op = "set_spacing" /\ lastCall'.inSpacing >= 0 =>
           IF rowSpacing # lastCall'.inSpacing \/ columnSpacing # lastCall'.inSpacing
           THEN /\ rowSpacing' = lastCall'.inSpacing
                /\ columnSpacing' = lastCall'.inSpacing
                /\ layoutChanged' = 1
           ELSE /\ UNCHANGED <<rowSpacing, columnSpacing>>
                /\ layoutChanged' = 0
                /\ notified' = {}]_vars

C18_Witness ==
    /\ lastCall.op = "set_spacing" /\ lastCall.inSpacing = MaxSpacing
    /\ rowSpacing = MaxSpacing /\ columnSpacing = MaxSpacing
    /\ layoutChanged = 1 /\ notified = {"row-spacing", "column-spacing"}

\* a step that is a forced quit request: xfdashboard_application_quit_forced
\* or the command line with --quit
ForcedQuitStep ==
    \/ appCall'.op = "quit_forced"
    \/ appCall'.op = "command_line" /\ appCall'.status = "QUIT"

\* a step that is a quit request without force: xfdashboard_application_quit,
\* the delete-event of a stage, or --toggle on an initialized instance that is
\* not a suspended daemon
PlainQuitStep ==
    \/ appCall'.op \in {"quit", "delete_stage"}
    \/ /\ appCall'.op = "command_line" /\ appCall'.status = "NONE"
       /\ appCall'.toggle /\ inited /\ ~(isDaemon /\ isSuspended)

Emitted(log) == {log[j] : j \in 1..Len(log)}

\* C19: a quit request emits "quit", after destroying all stages, exactly when
\* it is forced or the application is not in daemon mode; a quit request
\* without force in daemon mode emits "suspend" and sets isSuspended when the
\* application is not suspended, and changes nothing when it is.
C19_QuitPolicy ==
    [][ForcedQuitStep \/ PlainQuitStep =>
           /\ "quit" \in Emitted(appLog') <=> (ForcedQuitStep \/ ~isDaemon)
           /\ "quit" \in Emitted(appLog') =>
                  appLog' = <<"destroy-stages", "quit">> /\ stages' = 0
           /\ PlainQuitStep /\ isDaemon =>
                  IF ~isSuspended
                  THEN appLog' = <<"suspend">> /\ isSuspended'
                  ELSE /\ UNCHANGED <<isDaemon, isSuspended, inited, stages, stageShown,
                                      mainQuit>>
                       /\ appLog' = <<>>
                       /\ appNotified' = {}]_vars

C19_Witness ==
    /\ appCall.op = "delete_stage" /\ isDaemon /\ inited /\ stages > 0
    /\ isSuspended /\ appLog = <<"suspend">> /\ ~mainQuit

\* C20: --toggle without --quit on an initialized instance resumes a suspended
\* daemon, suspends a daemon that is not suspended and quits an instance that
\* is not a daemon; the instance is not initialized again and the status is
\* NONE.  On an instance that is not initialized --toggle neither quits nor
\* suspends nor resumes, and a successful call is the normal start-up.
C20_Toggle ==
    [][appCall'.op = "command_line" /\ appCall'.toggle /\ ~appCall'.quit =>
           /\ inited /\ appCall'.status # "FAILED" =>
                  /\ appCall'.status = "NONE"
                  /\ UNCHANGED <<isDaemon, inited, stageShown>>
                  /\ stages' <= stages
                  /\ IF isDaemon
                     THEN IF isSuspended
                          THEN appLog' = <<"resume">> /\ ~isSuspended'
                          ELSE appLog' = <<"suspend">> /\ isSuspended'
                     ELSE appLog' = <<"destroy-stages", "quit">> /\ mainQuit'
           /\ ~inited => appLog' = <<>> /\ ~mainQuit'
           /\ ~inited /\ appCall'.status # "FAILED" =>
                  /\ appCall'.status = "NONE"
                  /\ inited'
                  /\ isDaemon' = appCall'.daemonize
                  /\ stages' = stages + 1]_vars

C20_Witness ==
    /\ appCall.op = "command_line" /\ appCall.toggle /\ ~appCall.quit
    /\ appCall.status = "NONE" /\ isDaemon /\ inited
    /\ ~isSuspended /\ appLog = <<"resume">> /\ appNotified = {"is-suspended"}

\* C21: every read of a coordinate array by an entry point is within the
\* array: columnCoords[columns] in get_preferred_width, rowCoords[rows] in
\* get_preferred_height, columnCoords[column + 1] and rowCoords[row + 1] in
\* allocate, for every number of visible children, spacing and size.
C21_ReadsInBounds ==
    Recomputed => "read_out_of_bounds" \notin events

\* C22: with at least one visible child every update leaves
\* 1 <= columns <= numberChildren and 1 <= rows <= numberChildren, for every
\* size that is not set or >= 0, exactly 0 included.
C22_ShapeWithinChildren ==
    Recomputed /\ N >= 1 =>
        /\ 1 <= columns /\ columns <= numberChildren
        /\ 1 <= rows /\ rows <= numberChildren

\* C23: every box the allocation assigns to a visible child is well-formed,
\* x1 <= x2 and y1 <= y2, in every row, the last one included.
C23_WellFormedBoxes ==
    lastCall.op = "allocate" =>
        \A j \in 1..Len(allocated) :
            /\ FGeq(allocated[j].box.x2, allocated[j].box.x1)
            /\ FGeq(allocated[j].box.y2, allocated[j].box.y1)

\* C24: an allocation in height-for-width mode on a box of width W with at
\* least one visible child assigns only boxes with 0 <= x1 and x2 <= W.
C24_FitsHorizontally ==
    lastCall.op = "allocate" /\ HeightForWidth /\ N >= 1 =>
        \A j \in 1..Len(allocated) :
            /\ FGeq(allocated[j].box.x1, F(0))
            /\ FGeq(lastCall.inWidth, allocated[j].box.x2)

\* C25: over every sequence of command-line, activate and quit events
\* "suspend" is never emitted twice without a "resume" in between: a step
\* emits "suspend" only while isSuspended is FALSE and sets it TRUE, and
\* isSuspended goes back to FALSE only in a step that emits "resume".
C25_SuspendOnlyAfterResume ==
    [][/\ "suspend" \in Emitted(appLog') => ~isSuspended /\ isSuspended'
       /\ isSuspended /\ ~isSuspended' => "resume" \in Emitted(appLog')
       /\ "suspend" \in Emitted(appLog') => "resume" \notin Emitted(appLog')]_vars

C25_Witness ==
    /\ appCall.op = "quit" /\ isDaemon /\ inited
    /\ isSuspended /\ appLog = <<"suspend">> /\ appNotified = {"is-suspended"}

====
